---- MODULE Spec2Model ----
(***************************************************************************)
(* Model of the attachment tracking system (Django application `core`):   *)
(* the AttachmentApplication / LogBook / Notification rows and the        *)
(* request handlers and post-save hooks that write them, the Organization *)
(* verification handler, and the derived mark calculation.                *)
(***************************************************************************)
EXTENDS Integers, Naturals, Sequences, FiniteSets, Bags, TLC

\* ------------------------------------------------------------------ bounds
NumUsers == 2
NumPeriods == 1
MaxApps == 2
MaxWeek == 1
MaxDate == 2
MaxMark == 3
NumOrgs == 1
MaxTime == 2
MaxMessages == 1

\* --------------------------------------------------------------- constants
\* None / SQL NULL of a nullable column (an integer, so that it compares with ids and marks)
NULL == -1
\* request.user of a request without a session (AnonymousUser)
Anonymous == 0
\* timedelta(days=365)
ExpiryDays == 365

Users == 1..NumUsers
Periods == 1..NumPeriods
Weeks == 1..MaxWeek
Dates == 1..MaxDate
Marks == 0..MaxMark
Orgs == 1..NumOrgs

\* UserProfile.USER_TYPES
USER_TYPES == {"student", "university_supervisor", "industry_supervisor", "coordinator", "admin"}
\* a User row without a UserProfile row (hasattr(user, 'profile') is False)
NoProfile == "no_profile"
\* a username with no User row yet
NoUser == "no_user"

\* AttachmentApplication.STATUS_CHOICES
STATUS_CHOICES_13 ==
    {"draft", "submitted", "documents_verified", "department_review", "coordinator_review",
     "approved", "rejected", "placed", "ongoing", "completed", "terminated", "withdrawn",
     "pending"}
STATUS_CHOICES ==
    {"draft", "submitted", "documents_verified", "department_review", "coordinator_review",
     "approved", "rejected", "placed", "ongoing", "completed", "terminated", "withdrawn"}

\* Organization.VERIFICATION_STATUS
VERIFICATION_STATUS == {"pending", "verified", "rejected", "suspended", "expired"}

\* the statuses the lifecycle ends in
TerminalStatuses == {"completed", "terminated", "withdrawn"}

\* position of a status in the lifecycle order of STATUS_CHOICES (approved/rejected
\* share a rank, as do completed/terminated/withdrawn)
StatusRank(s) ==
    CASE s = "draft" -> 0
      [] s = "submitted" -> 1
      [] s = "documents_verified" -> 2
      [] s = "department_review" -> 3
      [] s = "coordinator_review" -> 4
      [] s \in {"approved", "rejected"} -> 5
      [] s = "placed" -> 6
      [] s = "ongoing" -> 7
      [] OTHER -> 8

VARIABLES
    is_superuser,     \* User.is_superuser, per user
    profile,          \* UserProfile.user_type of the user's profile, or NoProfile
    student_rec,      \* users whose profile has a Student row (whatever its user_type is now)
    supervisor_rec,   \* users whose profile has a UniversitySupervisor row
    applications,     \* AttachmentApplication rows; the id is the index
    logbooks,         \* LogBook rows, [application, week_number]
    notifications,    \* Notification rows, a bag of [user, notification_type, title, link]
    organizations,    \* Organization rows by id
    now,              \* timezone.now(), in days
    marks,            \* the mark fields of one AttachmentApplication instance
    is_active,        \* User.is_active, per user
    messages,         \* Message rows, [sender, recipient]; the id is the index
    evaluations,      \* Evaluation rows, [application, evaluator, reliability]
    last              \* the last operation and its outcome

vars == <<is_superuser, profile, student_rec, supervisor_rec, applications, logbooks,
          notifications, organizations, now, marks, is_active, messages, evaluations,
          last>>

userVars == <<is_superuser, profile, student_rec, supervisor_rec, is_active>>

NoOp == [op |-> "init", outcome |-> "none", user |-> NULL, target |-> NULL]

\* the operation that ran last and how it ended (the response or the exception raised)
Outcome(op, outcome, u) == [op |-> op, outcome |-> outcome, user |-> u, target |-> NULL]

\* the same for a request whose URL names a row (app_id)
OutcomeOn(op, outcome, u, target) ==
    [op |-> op, outcome |-> outcome, user |-> u, target |-> target]

\* ------------------------------------------------------------------ helpers
AppIds == 1..Len(applications)

\* hasattr(request.user, 'profile')
hasattr_profile(u) == u \in Users /\ profile[u] \in USER_TYPES

\* the role gate of apply_attachment
is_student_any_profile(u) == hasattr_profile(u)

is_student(u) == hasattr_profile(u) /\ profile[u] = "student"

\* User.objects.filter(profile__user_type='coordinator')
coordinators_or_admin == {u \in Users : profile[u] \in {"coordinator", "admin"}}

coordinators == {u \in Users : profile[u] = "coordinator"}

\* the rows a unique_together = ['student', 'attachment_period'] insert collides with
SameStudentPeriod_undeclared(student, period) == {}

SameStudentPeriod(student, period) ==
    {a \in AppIds : applications[a].student = student
                    /\ applications[a].attachment_period = period}

\* AttachmentApplicationForm.clean: raises when both dates are given and end <= start
clean_raises_strict(start_date, end_date) ==
    start_date # NULL /\ end_date # NULL /\ end_date < start_date

clean_raises(start_date, end_date) ==
    start_date # NULL /\ end_date # NULL /\ end_date <= start_date

\* AttachmentApplicationForm.is_valid(): the required fields are present and clean() passes
form_is_valid(period, start_date, end_date, fields_ok) ==
    /\ fields_ok
    /\ period # NULL
    /\ start_date # NULL
    /\ end_date # NULL
    /\ ~clean_raises(start_date, end_date)

\* AttachmentApplication has no `tracker` attribute: instance.tracker raises AttributeError
tracker_present == TRUE

tracker_defined == FALSE

Notif(u, type, title, link) ==
    [user |-> u, notification_type |-> type, title |-> title, link |-> link]

\* post_save hook of AttachmentApplication: the Notification rows it inserts.
\* old is the stored row before the save (unused when created).
create_application_notifications_untracked(id, old, instance, created) ==
    IF created
    THEN SetToBag({Notif(c, "info", "New Attachment Application", id) : c \in coordinators})
    ELSE IF old.status # instance.status
         THEN SetToBag({Notif(instance.student,
                              IF instance.status = "approved" THEN "success" ELSE "warning",
                              "Application Status Updated", id)})
              (+) (IF instance.status = "approved" /\ instance.assigned_supervisor # NULL
                   THEN SetToBag({Notif(instance.assigned_supervisor, "info",
                                        "New Student Assigned", id)})
                   ELSE EmptyBag)
         ELSE EmptyBag

create_application_notifications(id, old, instance, created) ==
    IF created
    THEN SetToBag({Notif(c, "info", "New Attachment Application", id) : c \in coordinators})
    ELSE IF tracker_defined /\ old.status # instance.status
         THEN SetToBag({Notif(instance.student,
                              IF instance.status = "approved" THEN "success" ELSE "warning",
                              "Application Status Updated", id)})
              (+) (IF instance.status = "approved" /\ instance.assigned_supervisor # NULL
                   THEN SetToBag({Notif(instance.assigned_supervisor, "info",
                                        "New Student Assigned", id)})
                   ELSE EmptyBag)
         ELSE EmptyBag

\* post_save hook of LogBook: the Notification rows it inserts
notify_supervisors_on_every_save(app_id, created) ==
    IF applications[app_id].assigned_supervisor # NULL
    THEN SetToBag({Notif(applications[app_id].assigned_supervisor, "info",
                         "New Logbook Entry", app_id)})
    ELSE EmptyBag

notify_supervisors_on_logbook(app_id, created) ==
    IF created /\ applications[app_id].assigned_supervisor # NULL
    THEN SetToBag({Notif(applications[app_id].assigned_supervisor, "info",
                         "New Logbook Entry", app_id)})
    ELSE EmptyBag

\* an Organization id with no row yet
NoOrganization ==
    [exists |-> FALSE, verification_status |-> "pending", verified_by |-> NULL,
     verified_at |-> NULL, verification_expiry |-> NULL, rejection_reason |-> ""]

\* ------------------------------------------------------------ initial state
InitMarks ==
    [industry_supervisor_marks |-> NULL, university_supervisor_marks |-> NULL,
     report_marks |-> NULL, logbook_presentation_marks |-> NULL,
     total_marks |-> NULL, grade |-> "", returned |-> NULL]

InitUsers ==
    /\ profile \in [Users -> USER_TYPES \cup {NoProfile}]
    /\ student_rec \in SUBSET {u \in Users : profile[u] # NoProfile}
    /\ supervisor_rec \in SUBSET {u \in Users : profile[u] = "university_supervisor"}

Init ==
    /\ InitUsers
    /\ is_superuser = [u \in Users |-> FALSE]
    /\ applications = <<>>
    /\ logbooks = {}
    /\ notifications = EmptyBag
    /\ organizations = [o \in Orgs |-> NoOrganization]
    /\ now = 1
    /\ marks = InitMarks
    /\ is_active = [u \in Users |-> TRUE]
    /\ messages = <<>>
    /\ evaluations = <<>>
    /\ last = NoOp

\* --------------------------------------------------------- request handlers
\* the instance apply_attachment saves: form.save(commit=False), then student, status
\* and submitted_at are assigned (the Student row of a user has the user's id here)
submitted_application_unstamped(u, period, start_date, end_date) ==
    [student |-> u,
     attachment_period |-> period,
     proposed_start_date |-> start_date,
     proposed_end_date |-> end_date,
     status |-> "submitted",
     submitted_at |-> NULL,
     assigned_supervisor |-> NULL]

submitted_application(u, period, start_date, end_date) ==
    [student |-> u,
     attachment_period |-> period,
     proposed_start_date |-> start_date,
     proposed_end_date |-> end_date,
     status |-> "submitted",
     submitted_at |-> now,
     assigned_supervisor |-> NULL]

\* views.apply_attachment
apply_attachment_draft(u, method, period, start_date, end_date, fields_ok) ==
    /\ UNCHANGED <<userVars, messages, evaluations, logbooks, organizations, now, marks>>
    /\ IF u = Anonymous
       THEN /\ last' = Outcome("apply_attachment", "redirect_login", u)
            /\ UNCHANGED <<applications, notifications>>
       ELSE IF ~is_student(u)
       THEN /\ last' = Outcome("apply_attachment", "redirect_dashboard", u)
            /\ UNCHANGED <<applications, notifications>>
       ELSE IF method = "GET"
       THEN /\ last' = Outcome("apply_attachment", "render_form", u)
            /\ UNCHANGED <<applications, notifications>>
       ELSE IF ~form_is_valid(period, start_date, end_date, fields_ok)
       THEN /\ last' = Outcome("apply_attachment", "form_errors", u)
            /\ UNCHANGED <<applications, notifications>>
       ELSE IF u \notin student_rec
       THEN /\ last' = Outcome("apply_attachment", "Student.DoesNotExist", u)
            /\ UNCHANGED <<applications, notifications>>
       ELSE IF SameStudentPeriod(u, period) # {}
       THEN /\ last' = Outcome("apply_attachment", "IntegrityError", u)
            /\ UNCHANGED <<applications, notifications>>
       ELSE /\ Len(applications) < MaxApps
            /\ LET id == Len(applications) + 1
                   application == [student |-> u,
                                   attachment_period |-> period,
                                   proposed_start_date |-> start_date,
                                   proposed_end_date |-> end_date,
                                   status |-> "draft",
                                   submitted_at |-> now,
                                   assigned_supervisor |-> NULL]
               IN /\ applications' = Append(applications, application)
                  /\ notifications' = notifications
                        (+) create_application_notifications(id, application, application, TRUE)
                  /\ last' = Outcome("apply_attachment", "redirect_applications", u)

apply_attachment(u, method, period, start_date, end_date, fields_ok) ==
    /\ UNCHANGED <<userVars, messages, evaluations, logbooks, organizations, now, marks>>
    /\ IF u = Anonymous
       THEN /\ last' = Outcome("apply_attachment", "redirect_login", u)
            /\ UNCHANGED <<applications, notifications>>
       ELSE IF ~is_student(u)
       THEN /\ last' = Outcome("apply_attachment", "redirect_dashboard", u)
            /\ UNCHANGED <<applications, notifications>>
       ELSE IF method = "GET"
       THEN /\ last' = Outcome("apply_attachment", "render_form", u)
            /\ UNCHANGED <<applications, notifications>>
       ELSE IF ~form_is_valid(period, start_date, end_date, fields_ok)
       THEN /\ last' = Outcome("apply_attachment", "form_errors", u)
            /\ UNCHANGED <<applications, notifications>>
       ELSE IF u \notin student_rec
       THEN /\ last' = Outcome("apply_attachment", "Student.DoesNotExist", u)
            /\ UNCHANGED <<applications, notifications>>
       ELSE IF SameStudentPeriod(u, period) # {}
       THEN /\ last' = Outcome("apply_attachment", "IntegrityError", u)
            /\ UNCHANGED <<applications, notifications>>
       ELSE /\ Len(applications) < MaxApps
            /\ LET id == Len(applications) + 1
                   application == submitted_application(u, period, start_date, end_date)
               IN /\ applications' = Append(applications, application)
                  /\ notifications' = notifications
                        (+) create_application_notifications(id, application, application, TRUE)
                  /\ last' = Outcome("apply_attachment", "redirect_applications", u)

ApplyAttachment ==
    \E u \in Users \cup {Anonymous}, method \in {"GET", "POST"},
       period \in Periods \cup {NULL}, start_date \in Dates \cup {NULL},
       end_date \in Dates \cup {NULL}, fields_ok \in BOOLEAN :
        apply_attachment(u, method, period, start_date, end_date, fields_ok)

\* views.withdraw_application: a stub that redirects and writes nothing
withdraw_application_sets_status(u, app_id) ==
    /\ app_id \in AppIds
    /\ applications' = [applications EXCEPT ![app_id].status = "withdrawn"]
    /\ last' = Outcome("withdraw_application", "redirect_applications", u)
    /\ UNCHANGED <<userVars, messages, evaluations, logbooks, notifications, organizations, now, marks>>

withdraw_application(u, app_id) ==
    /\ last' = Outcome("withdraw_application", "redirect_applications", u)
    /\ UNCHANGED <<userVars, messages, evaluations, applications, logbooks, notifications, organizations, now, marks>>

WithdrawApplication ==
    \E u \in Users \cup {Anonymous}, app_id \in 1..MaxApps : withdraw_application(u, app_id)

\* ------------------------------------------------------------- model saves
\* AttachmentApplication.save() on a stored row after status / assigned_supervisor were
\* assigned (plain field assignment; the admin site and any caller of the ORM do this),
\* followed by the post_save hook with created=False
save_application(app_id, new_status, new_supervisor) ==
    /\ app_id \in AppIds
    /\ LET old == applications[app_id]
           instance == [old EXCEPT !.status = new_status,
                                   !.assigned_supervisor = new_supervisor]
       IN /\ applications' = [applications EXCEPT ![app_id] = instance]
          /\ notifications' = notifications
                (+) create_application_notifications(app_id, old, instance, FALSE)
          /\ last' = Outcome("save_application",
                             IF tracker_defined THEN "saved" ELSE "AttributeError", NULL)
    /\ UNCHANGED <<userVars, messages, evaluations, logbooks, organizations, now, marks>>

SaveApplication ==
    \E app_id \in AppIds, new_status \in STATUS_CHOICES,
       new_supervisor \in supervisor_rec \cup {NULL} :
        save_application(app_id, new_status, new_supervisor)

\* LogBook.objects.create(application=..., week_number=...): an insert, then the
\* post_save hook with created=True; unique_together = ['application', 'week_number']
create_logbook(app_id, week_number) ==
    /\ app_id \in AppIds
    /\ LET row == [application |-> app_id, week_number |-> week_number]
       IN IF row \in logbooks
          THEN /\ last' = Outcome("create_logbook", "IntegrityError", NULL)
               /\ UNCHANGED <<logbooks, notifications>>
          ELSE /\ logbooks' = logbooks \cup {row}
               /\ notifications' = notifications
                     (+) notify_supervisors_on_logbook(app_id, TRUE)
               /\ last' = Outcome("create_logbook", "created", NULL)
    /\ UNCHANGED <<userVars, messages, evaluations, applications, organizations, now, marks>>

\* LogBook.save() on a stored row: an update, then the post_save hook with created=False
update_logbook_as_created(app_id, week_number) ==
    /\ [application |-> app_id, week_number |-> week_number] \in logbooks
    /\ notifications' = notifications (+) notify_supervisors_on_logbook(app_id, TRUE)
    /\ last' = Outcome("update_logbook", "saved", NULL)
    /\ UNCHANGED <<userVars, messages, evaluations, applications, logbooks, organizations, now, marks>>

update_logbook(app_id, week_number) ==
    /\ [application |-> app_id, week_number |-> week_number] \in logbooks
    /\ notifications' = notifications (+) notify_supervisors_on_logbook(app_id, FALSE)
    /\ last' = Outcome("update_logbook", "saved", NULL)
    /\ UNCHANGED <<userVars, messages, evaluations, applications, logbooks, organizations, now, marks>>

CreateLogbook == \E app_id \in AppIds, week_number \in Weeks : create_logbook(app_id, week_number)

UpdateLogbook == \E app_id \in AppIds, week_number \in Weeks : update_logbook(app_id, week_number)

Next ==
    \/ ApplyAttachment
    \/ WithdrawApplication
    \/ SaveApplication
    \/ CreateLogbook
    \/ UpdateLogbook

Spec == Init /\ [][Next]_vars

\* -------------------------------------------------------------- organizations
InitOrg ==
    /\ profile \in [Users -> USER_TYPES \cup {NoProfile}]
    /\ is_superuser \in [Users -> BOOLEAN]
    /\ student_rec = {}
    /\ supervisor_rec = {}
    /\ applications = <<>>
    /\ logbooks = {}
    /\ notifications = EmptyBag
    /\ organizations = [o \in Orgs |-> NoOrganization]
    /\ now = 1
    /\ marks = InitMarks
    /\ is_active = [u \in Users |-> TRUE]
    /\ messages = <<>>
    /\ evaluations = <<>>
    /\ last = NoOp

\* the role gate of verify_organization, for a user it does not raise on
can_verify_any_staff(u) == is_superuser[u] \/ profile[u] # "student"

can_verify(u) == is_superuser[u] \/ profile[u] = "coordinator"

\* pre_save hook of Organization: old is the stored row, instance the row being saved
update_organization_verification_on_every_save(old, instance) ==
    IF old.exists /\ instance.verification_status = "verified"
    THEN [instance EXCEPT !.verification_expiry = now + ExpiryDays,
                          !.verified_at = now]
    ELSE instance

update_organization_verification_without_expiry(old, instance) ==
    IF old.exists /\ old.verification_status # "verified"
                  /\ instance.verification_status = "verified"
    THEN [instance EXCEPT !.verified_at = now]
    ELSE instance

update_organization_verification(old, instance) ==
    IF old.exists /\ old.verification_status # "verified"
                  /\ instance.verification_status = "verified"
    THEN [instance EXCEPT !.verification_expiry = now + ExpiryDays,
                          !.verified_at = now]
    ELSE instance

\* views.register_organization. OrganizationRegistrationForm has no verification
\* field, so a verification_status in the POST data (posted_status) is not read: the
\* instance has the model default and the view assigns 'pending' before the save
register_organization_as_posted(u, method, fields_ok, posted_status) ==
    /\ UNCHANGED <<userVars, messages, evaluations, applications, logbooks, notifications, now, marks>>
    /\ IF method = "GET"
       THEN /\ last' = Outcome("register_organization", "render_form", u)
            /\ UNCHANGED organizations
       ELSE IF ~fields_ok
       THEN /\ last' = Outcome("register_organization", "form_errors", u)
            /\ UNCHANGED organizations
       ELSE /\ \E o \in Orgs : ~organizations[o].exists
            /\ LET id == CHOOSE o \in Orgs :
                             /\ ~organizations[o].exists
                             /\ \A p \in Orgs : ~organizations[p].exists => o <= p
                   organization == [NoOrganization EXCEPT !.exists = TRUE,
                                                          !.verification_status = posted_status]
               IN organizations' = [organizations EXCEPT
                        ![id] = update_organization_verification(NoOrganization, organization)]
            /\ last' = Outcome("register_organization", "redirect_organizations", u)

register_organization(u, method, fields_ok, posted_status) ==
    /\ UNCHANGED <<userVars, messages, evaluations, applications, logbooks, notifications, now, marks>>
    /\ IF method = "GET"
       THEN /\ last' = Outcome("register_organization", "render_form", u)
            /\ UNCHANGED organizations
       ELSE IF ~fields_ok
       THEN /\ last' = Outcome("register_organization", "form_errors", u)
            /\ UNCHANGED organizations
       ELSE /\ \E o \in Orgs : ~organizations[o].exists
            /\ LET id == CHOOSE o \in Orgs :
                             /\ ~organizations[o].exists
                             /\ \A p \in Orgs : ~organizations[p].exists => o <= p
                   organization == [NoOrganization EXCEPT !.exists = TRUE,
                                                          !.verification_status = "pending"]
               IN organizations' = [organizations EXCEPT
                        ![id] = update_organization_verification(NoOrganization, organization)]
            /\ last' = Outcome("register_organization", "redirect_organizations", u)

\* views.verify_organization
verify_organization(u, org_id, method, status_in, reason_in) ==
    /\ UNCHANGED <<userVars, messages, evaluations, applications, logbooks, notifications, now, marks>>
    /\ IF u = Anonymous
       THEN /\ last' = Outcome("verify_organization", "redirect_login", u)
            /\ UNCHANGED organizations
       ELSE IF ~is_superuser[u] /\ ~hasattr_profile(u)
       THEN /\ last' = Outcome("verify_organization", "RelatedObjectDoesNotExist", u)
            /\ UNCHANGED organizations
       ELSE IF ~can_verify(u)
       THEN /\ last' = Outcome("verify_organization", "redirect_organizations", u)
            /\ UNCHANGED organizations
       ELSE IF ~organizations[org_id].exists
       THEN /\ last' = Outcome("verify_organization", "Http404", u)
            /\ UNCHANGED organizations
       ELSE IF method = "GET"
       THEN /\ last' = Outcome("verify_organization", "render_form", u)
            /\ UNCHANGED organizations
       ELSE IF status_in \notin VERIFICATION_STATUS
       THEN /\ last' = Outcome("verify_organization", "form_errors", u)
            /\ UNCHANGED organizations
       ELSE /\ LET old == organizations[org_id]
                   org == [old EXCEPT !.verification_status = status_in,
                                      !.rejection_reason = reason_in,
                                      !.verified_by = u,
                                      !.verified_at = now]
               IN organizations' = [organizations EXCEPT
                        ![org_id] = update_organization_verification(old, org)]
            /\ last' = Outcome("verify_organization", "redirect_organization_detail", u)

RegisterOrganization ==
    \E u \in Users \cup {Anonymous}, method \in {"GET", "POST"}, fields_ok \in BOOLEAN,
       posted_status \in VERIFICATION_STATUS :
        register_organization(u, method, fields_ok, posted_status)

VerifyOrganization ==
    \E u \in Users \cup {Anonymous}, org_id \in Orgs, method \in {"GET", "POST"},
       status_in \in VERIFICATION_STATUS \cup {""}, reason_in \in {"", "not registered"} :
        verify_organization(u, org_id, method, status_in, reason_in)

\* time passes
Tick ==
    /\ now < MaxTime
    /\ now' = now + 1
    /\ UNCHANGED <<userVars, messages, evaluations, applications, logbooks, notifications, organizations, marks, last>>

NextOrg ==
    \/ RegisterOrganization
    \/ VerifyOrganization
    \/ Tick

SpecOrg == InitOrg /\ [][NextOrg]_vars

\* ------------------------------------------------------------------ accounts
\* the usernames that have a User row
Accounts == {u \in Users : profile[u] # NoUser}

InitReg ==
    /\ profile \in [Users -> USER_TYPES \cup {NoProfile, NoUser}]
    /\ student_rec \in SUBSET {u \in Users : profile[u] \in USER_TYPES}
    /\ supervisor_rec = {}
    /\ is_superuser = [u \in Users |-> FALSE]
    /\ applications = <<>>
    /\ logbooks = {}
    /\ notifications = EmptyBag
    /\ organizations = [o \in Orgs |-> NoOrganization]
    /\ now = 1
    /\ marks = InitMarks
    /\ is_active = [u \in Users |-> TRUE]
    /\ messages = <<>>
    /\ evaluations = <<>>
    /\ last = NoOp

\* User.save() without the post_save hooks: no UserProfile row is inserted
create_user_profile_skipped(profiles, u, created) == profiles

\* post_save hooks of User, run inside User.save(): create_user_profile inserts a
\* UserProfile with the default user_type when the User row was created;
\* save_user_profile then saves that profile again
create_user_profile(profiles, u, created) ==
    IF created THEN [profiles EXCEPT ![u] = "student"] ELSE profiles

\* views.register: user_form.save() inserts the User row and its hook the UserProfile
\* row; the view's UserProfile.objects.create(user=user, ...) then violates the
\* one-to-one constraint on UserProfile.user and raises IntegrityError, so the
\* submitted user_type is never stored and no Student row is created
register(username, method, form_ok, user_type, student_form_ok) ==
    /\ UNCHANGED <<is_superuser, is_active, messages, evaluations, supervisor_rec, applications, logbooks, notifications,
                   organizations, now, marks>>
    /\ IF method = "GET"
       THEN /\ last' = Outcome("register", "render_form", Anonymous)
            /\ UNCHANGED <<profile, student_rec>>
       ELSE IF ~form_ok \/ profile[username] # NoUser
       THEN /\ last' = Outcome("register", "form_errors", Anonymous)
            /\ UNCHANGED <<profile, student_rec>>
       ELSE /\ profile' = create_user_profile([profile EXCEPT ![username] = NoProfile],
                                              username, TRUE)
            /\ UNCHANGED student_rec
            /\ last' = Outcome("register", "IntegrityError", Anonymous)

Register ==
    \E username \in Users, method \in {"GET", "POST"}, form_ok \in BOOLEAN,
       user_type \in USER_TYPES, student_form_ok \in BOOLEAN :
        register(username, method, form_ok, user_type, student_form_ok)

\* apply_attachment requested by a session of an existing account, or without one
ApplyAttachmentByAccount ==
    \E u \in Accounts \cup {Anonymous}, method \in {"GET", "POST"},
       period \in Periods \cup {NULL}, start_date \in Dates \cup {NULL},
       end_date \in Dates \cup {NULL}, fields_ok \in BOOLEAN :
        apply_attachment(u, method, period, start_date, end_date, fields_ok)

\* register_organization requested by a session of an existing account, or without one
RegisterOrganizationByAccount ==
    \E u \in Accounts \cup {Anonymous}, method \in {"GET", "POST"}, fields_ok \in BOOLEAN,
       posted_status \in VERIFICATION_STATUS :
        register_organization(u, method, fields_ok, posted_status)

\* verify_organization requested by a session of an existing account, or without
\* one; the posted decision verifies, rejects with a reason, or is missing
VerifyOrganizationByAccount ==
    \E u \in Accounts \cup {Anonymous}, org_id \in Orgs, method \in {"GET", "POST"},
       decision \in {<<"verified", "">>, <<"rejected", "not registered">>, <<"", "">>} :
        verify_organization(u, org_id, method, decision[1], decision[2])

\* ------------------------------------------------------------------ messages
InitMsg ==
    /\ profile \in [Users -> USER_TYPES \cup {NoProfile}]
    /\ is_superuser \in [Users -> BOOLEAN]
    /\ is_active \in [Users -> BOOLEAN]
    /\ student_rec = {}
    /\ supervisor_rec = {}
    /\ applications = <<>>
    /\ logbooks = {}
    /\ notifications = EmptyBag
    /\ organizations = [o \in Orgs |-> NoOrganization]
    /\ now = 1
    /\ marks = InitMarks
    /\ messages = <<>>
    /\ evaluations = <<>>
    /\ last = NoOp

\* User.objects.filter(is_active=True): the User rows that are active
active_users == {r \in Accounts : is_active[r]}

\* MessageForm.__init__ with the is_active filter applied on the fall-through too
recipient_queryset_filtered(user) ==
    IF is_superuser[user] \/ profile[user] = "coordinator"
    THEN active_users
    ELSE IF profile[user] = "university_supervisor"
    THEN {r \in active_users : profile[r] = "student"}
    ELSE IF profile[user] = "student"
    THEN {r \in active_users : profile[r] \in {"university_supervisor", "coordinator"}}
    ELSE active_users

\* MessageForm.__init__: the queryset of the recipient field for a user it does not
\* raise on. A role none of the three branches names keeps the default queryset of
\* the ForeignKey field, every User row.
recipient_queryset(user) ==
    IF is_superuser[user] \/ profile[user] = "coordinator"
    THEN active_users
    ELSE IF profile[user] = "university_supervisor"
    THEN {r \in active_users : profile[r] = "student"}
    ELSE IF profile[user] = "student"
    THEN {r \in active_users : profile[r] \in {"university_supervisor", "coordinator"}}
    ELSE Accounts

\* views.new_message. After message.save() the view calls redirect('messages_list');
\* urls.py names the route 'messages' and has no route 'messages_list', so the
\* request ends in NoReverseMatch with the Message row stored
new_message(u, method, recipient, fields_ok) ==
    /\ UNCHANGED <<userVars, evaluations, applications, logbooks, notifications, organizations,
                   now, marks>>
    /\ IF u = Anonymous
       THEN /\ last' = Outcome("new_message", "redirect_login", u)
            /\ UNCHANGED messages
       ELSE IF ~is_superuser[u] /\ ~hasattr_profile(u)
       THEN /\ last' = Outcome("new_message", "RelatedObjectDoesNotExist", u)
            /\ UNCHANGED messages
       ELSE IF method = "GET"
       THEN /\ last' = Outcome("new_message", "render_form", u)
            /\ UNCHANGED messages
       ELSE IF ~fields_ok \/ recipient \notin recipient_queryset(u)
       THEN /\ last' = Outcome("new_message", "form_errors", u)
            /\ UNCHANGED messages
       ELSE /\ Len(messages) < MaxMessages
            /\ messages' = Append(messages, [sender |-> u, recipient |-> recipient])
            /\ last' = Outcome("new_message", "NoReverseMatch", u)

\* a session belongs to an active user (an inactive user cannot log in)
NewMessage ==
    \E u \in active_users \cup {Anonymous}, method \in {"GET", "POST"},
       recipient \in Users \cup {NULL}, fields_ok \in BOOLEAN :
        new_message(u, method, recipient, fields_ok)

NextMsg == NewMessage

SpecMsg == InitMsg /\ [][NextMsg]_vars

\* ------------------------------------------------------------------ evaluations
\* form.save(commit=False) of a valid EvaluationForm followed by the view's two
\* assignments. EvaluationForm.Meta.fields does not list reliability, so the
\* instance keeps None for it
new_evaluation(app_id, u) ==
    [application |-> app_id, evaluator |-> u, reliability |-> NULL]

\* Evaluation.calculate_overall adds the ten scores and raises TypeError when one
\* of them is None
calculate_overall_raises(evaluation) == evaluation.reliability = NULL

\* views.evaluate. Evaluation.save() calls calculate_overall() before
\* super().save(), so a valid POST ends in TypeError before any row is written;
\* the redirect behind the save names 'evaluations_list', which is no route of urls.py
evaluate(u, app_id, method, fields_ok) ==
    /\ UNCHANGED <<userVars, messages, applications, logbooks, notifications, organizations,
                   now, marks>>
    /\ IF u = Anonymous
       THEN /\ last' = OutcomeOn("evaluate", "redirect_login", u, app_id)
            /\ UNCHANGED evaluations
       ELSE IF app_id \notin AppIds
       THEN /\ last' = OutcomeOn("evaluate", "Http404", u, app_id)
            /\ UNCHANGED evaluations
       ELSE IF method = "GET"
       THEN /\ last' = OutcomeOn("evaluate", "render_form", u, app_id)
            /\ UNCHANGED evaluations
       ELSE IF ~fields_ok
       THEN /\ last' = OutcomeOn("evaluate", "form_errors", u, app_id)
            /\ UNCHANGED evaluations
       ELSE LET evaluation == new_evaluation(app_id, u)
            IN IF calculate_overall_raises(evaluation)
               THEN /\ last' = OutcomeOn("evaluate", "TypeError", u, app_id)
                    /\ UNCHANGED evaluations
               ELSE /\ evaluations' = Append(evaluations, evaluation)
                    /\ last' = OutcomeOn("evaluate", "NoReverseMatch", u, app_id)

\* ------------------------------------------------------------------ all handlers
\* evaluate requested by a session of an existing account, or without one
EvaluateByAccount ==
    \E u \in Accounts \cup {Anonymous}, app_id \in 1..MaxApps, method \in {"GET", "POST"},
       fields_ok \in BOOLEAN :
        evaluate(u, app_id, method, fields_ok)

\* new_message requested by a session of an existing account, or without one
NewMessageByAccount ==
    \E u \in Accounts \cup {Anonymous}, method \in {"GET", "POST"},
       recipient \in Users \cup {NULL}, fields_ok \in BOOLEAN :
        new_message(u, method, recipient, fields_ok)

NextReg ==
    \/ Register
    \/ ApplyAttachmentByAccount
    \/ RegisterOrganizationByAccount
    \/ VerifyOrganizationByAccount
    \/ EvaluateByAccount
    \/ NewMessageByAccount

SpecReg == InitReg /\ [][NextReg]_vars

\* ------------------------------------------------------------------ logbook view
InitLog ==
    /\ profile \in [Users -> USER_TYPES \cup {NoProfile}]
    /\ is_superuser \in [Users -> BOOLEAN]
    /\ student_rec \in SUBSET {u \in Users : profile[u] \in USER_TYPES}
    /\ supervisor_rec = {}
    /\ applications = <<>>
    /\ logbooks = {}
    /\ notifications = EmptyBag
    /\ organizations = [o \in Orgs |-> NoOrganization]
    /\ now = 1
    /\ marks = InitMarks
    /\ is_active = [u \in Users |-> TRUE]
    /\ messages = <<>>
    /\ evaluations = <<>>
    /\ last = NoOp

\* the permission check of views.logbook, for a user it does not raise on
can_view_logbook_any_student(u, app_id) ==
    \/ is_superuser[u]
    \/ profile[u] = "university_supervisor"
    \/ profile[u] = "student"

can_view_logbook(u, app_id) ==
    \/ is_superuser[u]
    \/ profile[u] = "university_supervisor"
    \/ (profile[u] = "student" /\ applications[app_id].student = u)

\* views.logbook
logbook(u, app_id) ==
    /\ UNCHANGED <<userVars, messages, evaluations, applications, logbooks, notifications, organizations,
                   now, marks>>
    /\ IF u = Anonymous
       THEN last' = OutcomeOn("logbook", "redirect_login", u, app_id)
       ELSE IF app_id \notin AppIds
       THEN last' = OutcomeOn("logbook", "Http404", u, app_id)
       ELSE IF ~is_superuser[u] /\ ~hasattr_profile(u)
       THEN last' = OutcomeOn("logbook", "RelatedObjectDoesNotExist", u, app_id)
       ELSE IF ~can_view_logbook(u, app_id)
       THEN last' = OutcomeOn("logbook", "redirect_dashboard", u, app_id)
       ELSE last' = OutcomeOn("logbook", "render_logbook", u, app_id)

Logbook == \E u \in Users \cup {Anonymous}, app_id \in 1..MaxApps : logbook(u, app_id)

NextLog ==
    \/ ApplyAttachment
    \/ Logbook

SpecLog == InitLog /\ [][NextLog]_vars

\* ---------------------------------------------------------------- mark fields
\* total_marks values a stored row may hold before a calculation (the grade limits
\* and their neighbours among them)
StoredTotals == Marks \cup {39, 40, 49, 50, 59, 60, 69, 70}

InitCalc ==
    /\ marks \in [industry_supervisor_marks : Marks \cup {NULL},
                  university_supervisor_marks : Marks \cup {NULL},
                  report_marks : Marks \cup {NULL},
                  logbook_presentation_marks : Marks \cup {NULL},
                  total_marks : StoredTotals \cup {NULL},
                  grade : {""},
                  returned : {NULL}]
    /\ is_superuser = [u \in Users |-> FALSE]
    /\ profile = [u \in Users |-> NoProfile]
    /\ student_rec = {}
    /\ supervisor_rec = {}
    /\ applications = <<>>
    /\ logbooks = {}
    /\ notifications = EmptyBag
    /\ organizations = [o \in Orgs |-> NoOrganization]
    /\ now = 1
    /\ is_active = [u \in Users |-> TRUE]
    /\ messages = <<>>
    /\ evaluations = <<>>
    /\ last = NoOp

\* Python truth value of a nullable integer field: None and 0 are false
Truthy(x) == x # NULL /\ x # 0

\* `if self.<field>: total += self.<field>; count += 1` over the four mark fields
Accumulate(m) ==
    LET step(acc, x) == IF Truthy(x)
                        THEN [total |-> acc.total + x, count |-> acc.count + 1]
                        ELSE acc
    IN step(step(step(step([total |-> 0, count |-> 0],
                           m.industry_supervisor_marks),
                      m.university_supervisor_marks),
                 m.report_marks),
            m.logbook_presentation_marks)

\* AttachmentApplication.calculate_total_marks: the instance after the call
calculate_total_marks_average(m) ==
    LET acc == Accumulate(m)
    IN IF acc.count > 0
       THEN [m EXCEPT !.total_marks = acc.total \div acc.count,
                      !.returned = acc.total \div acc.count]
       ELSE [m EXCEPT !.returned = NULL]

calculate_total_marks(m) ==
    LET acc == Accumulate(m)
    IN IF acc.count > 0
       THEN [m EXCEPT !.total_marks = acc.total, !.returned = acc.total]
       ELSE [m EXCEPT !.returned = NULL]

\* AttachmentApplication.calculate_grade: the instance after the call
calculate_grade(m) ==
    IF Truthy(m.total_marks)
    THEN [m EXCEPT !.returned = NULL,
                   !.grade = IF m.total_marks >= 70 THEN "A"
                             ELSE IF m.total_marks >= 60 THEN "B"
                             ELSE IF m.total_marks >= 50 THEN "C"
                             ELSE IF m.total_marks >= 40 THEN "D"
                             ELSE "F"]
    ELSE [m EXCEPT !.returned = NULL]

CalculateTotalMarks ==
    /\ marks' = calculate_total_marks(marks)
    /\ last' = Outcome("calculate_total_marks", "returned", NULL)
    /\ UNCHANGED <<userVars, messages, evaluations, applications, logbooks, notifications, organizations, now>>

CalculateGrade ==
    /\ marks' = calculate_grade(marks)
    /\ last' = Outcome("calculate_grade", "returned", NULL)
    /\ UNCHANGED <<userVars, messages, evaluations, applications, logbooks, notifications, organizations, now>>

NextCalc ==
    \/ CalculateTotalMarks
    \/ CalculateGrade

SpecCalc == InitCalc /\ [][NextCalc]_vars

\* ===================================================================== claims
\* a save inserted an AttachmentApplication row in this step
ApplicationCreated == Len(applications') > Len(applications)

\* the number of Notification rows addressed to u that link to application id
NotificationsFor(u, id) ==
    LET rows == {n \in BagToSet(notifications) : n.user = u /\ n.link = id}
    IN BagCardinality([n \in rows |-> CopiesIn(n, notifications)])

\* C1 (as stated): the status of an application only ever moves forward in the
\* lifecycle order draft < submitted < documents_verified < department_review <
\* coordinator_review < approved/rejected < placed < ongoing < completed/terminated/
\* withdrawn.
C1_ForwardOnly ==
    [][\A a \in AppIds :
          applications'[a].status # applications[a].status
              => StatusRank(applications'[a].status) > StatusRank(applications[a].status)]_vars

\* C1 (amended): apply_attachment stores every new application with status
\* 'submitted', no request handler changes the status of a stored application, and
\* the only writer of a stored status is a model save, which may assign any status.
C1_HandlersOnlySubmit ==
    [][/\ ApplicationCreated =>
              /\ last'.op = "apply_attachment"
              /\ applications'[Len(applications')].status = "submitted"
       /\ \A a \in AppIds :
              applications'[a].status # applications[a].status
                  => last'.op = "save_application"]_vars

\* C1 witness: a model save has moved a stored application back to 'draft'
C1_Witness ==
    /\ last.op = "save_application"
    /\ \E a \in AppIds : applications[a].status = "draft"

\* C2 (as stated): once the status of an application is completed, terminated or
\* withdrawn, no step changes it.
C2_TerminalIsFinal ==
    [][\A a \in AppIds :
          applications[a].status \in TerminalStatuses
              => applications'[a].status = applications[a].status]_vars

\* C2 (amended): withdraw_application writes nothing, and no request handler changes
\* an application whose status is completed, terminated or withdrawn; only a model
\* save changes such a status.
C2_HandlersKeepTerminal ==
    [][/\ last'.op = "withdraw_application"
              => applications' = applications /\ notifications' = notifications
       /\ \A a \in AppIds :
              (applications[a].status \in TerminalStatuses
               /\ last'.op \in {"apply_attachment", "withdraw_application"})
                  => applications'[a] = applications[a]]_vars

\* C2 witness: withdraw_application has run on a database holding a terminal application
C2_Witness ==
    /\ last.op = "withdraw_application"
    /\ \E a \in AppIds : applications[a].status \in TerminalStatuses

\* C3 (as stated): the status field ranges over thirteen states.
C3_ThirteenStates ==
    /\ \A a \in AppIds : applications[a].status \in STATUS_CHOICES
    /\ Cardinality(STATUS_CHOICES) = 13

\* C3 (amended): the status of every stored application is one of STATUS_CHOICES,
\* which has twelve elements.
C3_TwelveStates ==
    /\ Cardinality(STATUS_CHOICES) = 12
    /\ \A a \in AppIds : applications[a].status \in STATUS_CHOICES

\* C3 witness: an application has reached the last status of the list
C3_Witness == \E a \in AppIds : applications[a].status = "withdrawn"

\* C4 (as stated): every save of an AttachmentApplication and every save of a LogBook
\* inserts at least one Notification row.
C4_EverySaveNotifies ==
    [][(\/ ApplicationCreated
        \/ last'.op = "save_application"
        \/ logbooks' # logbooks
        \/ last'.op = "update_logbook")
          => BagCardinality(notifications') > BagCardinality(notifications)]_vars

\* C4 (amended): notification creation is conditional. The save that creates an
\* application inserts one row per coordinator user (none without coordinators), the
\* save that creates a LogBook inserts one row when the application has an assigned
\* supervisor and none otherwise, and a save of a stored LogBook inserts none.
C4_ConditionalNotifications ==
    [][LET inserted == BagCardinality(notifications') - BagCardinality(notifications)
       IN /\ ApplicationCreated
                => inserted = Cardinality({u \in Users : profile[u] = "coordinator"})
          /\ logbooks' # logbooks
                => inserted =
                     IF \E l \in logbooks' \ logbooks :
                            applications[l.application].assigned_supervisor # NULL
                     THEN 1 ELSE 0
          /\ last'.op = "update_logbook" => inserted = 0]_vars

\* C4 witness: a LogBook row was created and no notification exists
C4_Witness ==
    /\ last.op = "create_logbook"
    /\ last.outcome = "created"
    /\ logbooks # {}
    /\ notifications = EmptyBag

\* C5: in the state right after apply_attachment saved a new application, each
\* coordinator user has exactly one notification for it, an 'info' row titled
\* 'New Attachment Application', and no other user has a notification for it.
C5_OnePerCoordinator ==
    (last.op = "apply_attachment" /\ last.outcome = "redirect_applications")
        => \A u \in Users :
              LET id == Len(applications)
                  rows == {n \in BagToSet(notifications) : n.user = u /\ n.link = id}
              IN IF profile[u] = "coordinator"
                 THEN /\ rows = {Notif(u, "info", "New Attachment Application", id)}
                      /\ NotificationsFor(u, id) = 1
                 ELSE rows = {}

\* C5 witness: an application was just created while a coordinator exists
C5_Witness ==
    /\ last.op = "apply_attachment"
    /\ last.outcome = "redirect_applications"
    /\ \E u \in Users : profile[u] = "coordinator" /\ NotificationsFor(u, Len(applications)) = 1

\* C6: an apply_attachment request of a user who has no profile or whose user_type is
\* not 'student' leaves every stored record unchanged.
C6_ApplyGatedByRole ==
    [][(/\ last'.op = "apply_attachment"
        /\ ~(last'.user \in Users /\ profile[last'.user] = "student"))
          => UNCHANGED <<userVars, messages, evaluations, applications, logbooks, notifications, organizations>>]_vars

\* C6 witness: a user with a non-student profile was sent back to the dashboard while
\* applications were stored
C6_Witness ==
    /\ last.op = "apply_attachment"
    /\ last.outcome = "redirect_dashboard"
    /\ last.user \in Users
    /\ profile[last.user] \notin {"student", NoProfile}
    /\ Len(applications) > 0

\* C8: every stored application has proposed_start_date strictly before
\* proposed_end_date (the row stores the dates as submitted, so no submission whose
\* end date is not after its start date has created a row).
C8_StartBeforeEnd ==
    \A a \in AppIds :
        /\ applications[a].proposed_start_date # NULL
        /\ applications[a].proposed_end_date # NULL
        /\ applications[a].proposed_start_date < applications[a].proposed_end_date

\* C8 witness: a submission was rejected with form errors after one was accepted
C8_Witness ==
    /\ last.op = "apply_attachment"
    /\ last.outcome = "form_errors"
    /\ Len(applications) > 0

\* C9: no two stored applications have the same student and attachment period.
C9_OnePerPeriod ==
    \A a, b \in AppIds :
        (/\ applications[a].student = applications[b].student
         /\ applications[a].attachment_period = applications[b].attachment_period)
            => a = b

\* C9 witness: a second application of the same student for the same period failed
C9_Witness ==
    /\ last.op = "apply_attachment"
    /\ last.outcome = "IntegrityError"
    /\ \E a \in AppIds : applications[a].student = last.user

\* the users verify_organization lets through
MayVerify(u) == u \in Users /\ (is_superuser[u] \/ profile[u] = "coordinator")

\* C7: a verify_organization request of a user who is neither a superuser nor a
\* coordinator leaves verification_status, verified_by, verified_at,
\* verification_expiry and rejection_reason of every organization unchanged.
C7_VerifyGatedByRole ==
    [][(last'.op = "verify_organization" /\ ~MayVerify(last'.user))
          => \A o \in Orgs :
                /\ organizations'[o].verification_status = organizations[o].verification_status
                /\ organizations'[o].verified_by = organizations[o].verified_by
                /\ organizations'[o].verified_at = organizations[o].verified_at
                /\ organizations'[o].verification_expiry = organizations[o].verification_expiry
                /\ organizations'[o].rejection_reason = organizations[o].rejection_reason]_vars

\* C7 witness: a user with a non-coordinator profile and no superuser flag was turned
\* away from a registered organization
C7_Witness ==
    /\ last.op = "verify_organization"
    /\ last.outcome = "redirect_organizations"
    /\ last.user \in Users
    /\ ~MayVerify(last.user)
    /\ \E o \in Orgs : organizations[o].exists

\* the four mark components of the instance
Components(m) ==
    <<m.industry_supervisor_marks, m.university_supervisor_marks,
      m.report_marks, m.logbook_presentation_marks>>

\* the components that hold a mark (not None)
Recorded(m) == {i \in 1..4 : Components(m)[i] # NULL}

\* the sum of the recorded components
RecordedSum(m) ==
    LET val(x) == IF x = NULL THEN 0 ELSE x
    IN val(Components(m)[1]) + val(Components(m)[2])
       + val(Components(m)[3]) + val(Components(m)[4])

\* C10 (as stated): after calculate_total_marks, total_marks is the arithmetic
\* average of the recorded mark components (stated for instances whose recorded
\* marks are all positive, where every recorded component takes part in the result).
C10_TotalIsAverage ==
    (/\ last.op = "calculate_total_marks"
     /\ Recorded(marks) # {}
     /\ \A i \in Recorded(marks) : Components(marks)[i] > 0)
        => marks.total_marks * Cardinality(Recorded(marks)) = RecordedSum(marks)

\* C10 (amended): calculate_total_marks sets total_marks to the sum, not the average,
\* of the components that are recorded and not 0, and returns it, when there is such
\* a component; otherwise it returns None and leaves total_marks as it was.
C10_TotalIsSum ==
    [][last'.op = "calculate_total_marks"
          => IF \E i \in Recorded(marks) : Components(marks)[i] # 0
             THEN /\ marks'.total_marks = RecordedSum(marks)
                  /\ marks'.returned = RecordedSum(marks)
             ELSE /\ marks'.total_marks = marks.total_marks
                  /\ marks'.returned = NULL]_vars

\* C10 witness: two or more components are recorded with positive marks and
\* total_marks is their sum, which is above their average
C10_Witness ==
    /\ last.op = "calculate_total_marks"
    /\ Cardinality({i \in Recorded(marks) : Components(marks)[i] > 0}) >= 2
    /\ marks.total_marks = RecordedSum(marks)
    /\ marks.total_marks * Cardinality(Recorded(marks)) > RecordedSum(marks)

\* the rows this step inserts or changes, table by table
UserRows == Cardinality({u \in Users : profile[u] = NoUser /\ profile'[u] # NoUser})

UserProfileRows ==
    Cardinality({u \in Users : profile'[u] \in USER_TYPES /\ profile'[u] # profile[u]})

StudentRows == Cardinality(student_rec' \ student_rec)

ApplicationRows ==
    (Len(applications') - Len(applications))
    + Cardinality({a \in AppIds : applications'[a] # applications[a]})

LogBookRows == Cardinality(logbooks' \ logbooks)

NotificationRows == BagCardinality(notifications') - BagCardinality(notifications)

OrganizationRows == Cardinality({o \in Orgs : organizations'[o] # organizations[o]})

MessageRows ==
    (Len(messages') - Len(messages))
    + Cardinality({i \in 1..Len(messages) : messages'[i] # messages[i]})

EvaluationRows ==
    (Len(evaluations') - Len(evaluations))
    + Cardinality({i \in 1..Len(evaluations) : evaluations'[i] # evaluations[i]})

\* the number of database rows this step inserts or changes
RowsWritten ==
    UserRows + UserProfileRows + StudentRows + ApplicationRows + LogBookRows
    + NotificationRows + OrganizationRows + MessageRows + EvaluationRows

\* the six request handlers
Handlers ==
    {"register", "apply_attachment", "register_organization", "verify_organization",
     "evaluate", "new_message"}

\* C11 (as stated): no invocation of a request handler (register, apply_attachment,
\* register_organization, verify_organization, evaluate, new_message), the save
\* hooks it triggers included, inserts or changes more than one database row.
C11_SingleRowWrites ==
    [][last'.op \in Handlers => RowsWritten <= 1]_vars

\* C11 (amended): an invocation of one of the six request handlers writes rows of
\* its own tables only, at most one row in each of them, plus the rows of the save
\* hooks: register_organization and verify_organization write at most one
\* Organization row, new_message at most one Message row and evaluate at most one
\* Evaluation row, and nothing else; apply_attachment writes nothing, or one
\* AttachmentApplication row together with exactly one Notification row for every
\* coordinator user; register writes nothing, or one User row together with the one
\* UserProfile row the post_save hook of User creates for it and at most one
\* Student row.
C11_HandlerAndHookRows ==
    [][/\ last'.op \in {"register_organization", "verify_organization"}
            => /\ OrganizationRows <= 1
               /\ RowsWritten = OrganizationRows
       /\ last'.op = "new_message"
            => /\ MessageRows <= 1
               /\ RowsWritten = MessageRows
       /\ last'.op = "evaluate"
            => /\ EvaluationRows <= 1
               /\ RowsWritten = EvaluationRows
       /\ last'.op = "apply_attachment"
            => /\ ApplicationRows <= 1
               /\ NotificationRows = ApplicationRows * Cardinality(coordinators)
               /\ RowsWritten = ApplicationRows + NotificationRows
       /\ last'.op = "register"
            => /\ UserRows <= 1
               /\ UserProfileRows = UserRows
               /\ StudentRows <= UserRows
               /\ RowsWritten = UserRows + UserProfileRows + StudentRows]_vars

\* C11 witness: one apply_attachment request has stored an application and at least
\* one notification, two rows or more, after a message had been stored
C11_Witness ==
    /\ last.op = "apply_attachment"
    /\ last.outcome = "redirect_applications"
    /\ Len(applications) = 1
    /\ BagCardinality(notifications) >= 1
    /\ Len(messages) >= 1

\* the number of rows equal to n that this step inserts
Inserted(n) == CopiesIn(n, notifications') - CopiesIn(n, notifications)

\* the Notification rows with the given title that this step inserts
InsertedTitled(title) ==
    {n \in BagToSet(notifications') : n.title = title /\ Inserted(n) > 0}

\* the stored applications whose status this step changes
StatusChanged == {a \in AppIds : applications'[a].status # applications[a].status}

\* C12 (as stated): a save of a stored application inserts an 'Application Status
\* Updated' notification for the owning student exactly when the status differs from
\* the stored one; then it inserts exactly one, of type 'success' when the new status
\* is 'approved' and 'warning' otherwise.
C12_StatusUpdateNotified ==
    [][last'.op = "save_application"
          => /\ StatusChanged = {} => InsertedTitled("Application Status Updated") = {}
             /\ \A a \in StatusChanged :
                   LET n == Notif(applications[a].student,
                                  IF applications'[a].status = "approved"
                                  THEN "success" ELSE "warning",
                                  "Application Status Updated", a)
                   IN /\ InsertedTitled("Application Status Updated") = {n}
                      /\ Inserted(n) = 1]_vars

\* C12 (observed): every save of a stored application stores the assigned fields,
\* fails in its post_save hook with AttributeError and inserts no notification.
C12_UpdateSaveRaises ==
    [][last'.op = "save_application"
          => /\ last'.outcome = "AttributeError"
             /\ notifications' = notifications
             /\ Len(applications') = Len(applications)]_vars

\* C12 witness: a save has stored a new status and the student has no 'Application
\* Status Updated' notification
C12_Witness ==
    /\ last.op = "save_application"
    /\ \E a \in AppIds :
          /\ applications[a].status = "approved"
          /\ \A n \in BagToSet(notifications) : n.title # "Application Status Updated"

\* C13 (as stated): when a save changes the status of a stored application to
\* 'approved', it inserts exactly one 'info' notification 'New Student Assigned' for
\* the assigned supervisor if there is one and none otherwise; a change to any other
\* status, or no change, inserts none.
C13_SupervisorNotifiedOnApproval ==
    [][last'.op = "save_application"
          => LET approved == {a \in StatusChanged :
                                 /\ applications'[a].status = "approved"
                                 /\ applications'[a].assigned_supervisor # NULL}
             IN /\ approved = {} => InsertedTitled("New Student Assigned") = {}
                /\ \A a \in approved :
                      LET n == Notif(applications'[a].assigned_supervisor, "info",
                                     "New Student Assigned", a)
                      IN /\ InsertedTitled("New Student Assigned") = {n}
                         /\ Inserted(n) = 1]_vars

\* C13 (observed): no 'New Student Assigned' notification is ever stored, whatever
\* status and supervisor a save assigns.
C13_SupervisorNeverNotified ==
    \A n \in BagToSet(notifications) : n.title # "New Student Assigned"

\* C13 witness: a save has approved an application that has an assigned supervisor
C13_Witness ==
    /\ last.op = "save_application"
    /\ \E a \in AppIds :
          /\ applications[a].status = "approved"
          /\ applications[a].assigned_supervisor # NULL

\* C14: the save that creates a LogBook entry inserts exactly one notification, an
\* 'info' row 'New Logbook Entry' for the application's assigned supervisor, when a
\* supervisor is assigned, and no notification when none is assigned; a save of a
\* stored LogBook entry inserts no notification.
C14_LogbookNotifiesOnCreate ==
    [][/\ (last'.op = "create_logbook" /\ last'.outcome = "created")
            => \E l \in logbooks' \ logbooks :
                  LET sup == applications[l.application].assigned_supervisor
                      n == Notif(sup, "info", "New Logbook Entry", l.application)
                  IN IF sup # NULL
                     THEN notifications' = notifications (+) SetToBag({n})
                     ELSE notifications' = notifications
       /\ last'.op = "update_logbook"
            => notifications' = notifications /\ logbooks' = logbooks]_vars

\* C14 witness: a stored LogBook entry whose creation notified the assigned
\* supervisor was saved again, and the supervisor still has that one notification
C14_Witness ==
    /\ last.op = "update_logbook"
    /\ \E l \in logbooks :
          LET sup == applications[l.application].assigned_supervisor
          IN /\ sup # NULL
             /\ CopiesIn(Notif(sup, "info", "New Logbook Entry", l.application),
                         notifications) = 1

\* this step is the apply_attachment POST of student user u with a form that validates
ValidStudentPost(u, period, start_date, end_date) ==
    /\ is_student(u)
    /\ form_is_valid(period, start_date, end_date, TRUE)
    /\ apply_attachment(u, "POST", period, start_date, end_date, TRUE)

\* this step creates exactly one application and changes no other: the new row
\* belongs to the Student record of user u, is 'submitted' and has submitted_at set
CreatesSubmitted(u) ==
    /\ Len(applications') = Len(applications) + 1
    /\ \A a \in AppIds : applications'[a] = applications[a]
    /\ LET application == applications'[Len(applications')]
       IN /\ u \in student_rec
          /\ application.student = u
          /\ application.status = "submitted"
          /\ application.status # "draft"
          /\ application.submitted_at # NULL

\* C15 (as stated): every valid apply_attachment POST by a student user creates
\* exactly one application, whose student is the Student record of the requesting
\* user, whose status is 'submitted' and whose submitted_at is non-null.
C15_EveryValidPostCreates ==
    [][\A u \in Users, period \in Periods, start_date \in Dates, end_date \in Dates :
          ValidStudentPost(u, period, start_date, end_date) => CreatesSubmitted(u)]_vars

\* C15 (amended): a valid apply_attachment POST by a student user creates exactly
\* one application, of the requesting user's Student record, 'submitted' and with
\* submitted_at set to the time of the request, when that user has a Student record
\* and no application for the chosen period yet; otherwise it creates and changes
\* no application. No other apply_attachment request creates or changes one.
C15_ApplyCreatesSubmitted ==
    [][/\ \A u \in Users, period \in Periods, start_date \in Dates, end_date \in Dates :
             ValidStudentPost(u, period, start_date, end_date)
                => IF u \in student_rec /\ SameStudentPeriod(u, period) = {}
                   THEN /\ CreatesSubmitted(u)
                        /\ applications'[Len(applications')].submitted_at = now
                        /\ applications'[Len(applications')].attachment_period = period
                        /\ last'.outcome = "redirect_applications"
                   ELSE /\ applications' = applications
                        /\ last'.outcome # "redirect_applications"
       /\ (last'.op = "apply_attachment" /\ applications' # applications)
             => /\ last'.outcome = "redirect_applications"
                /\ profile[last'.user] = "student"
                /\ CreatesSubmitted(last'.user)]_vars

\* C15 witness: a second student has applied, so that two applications are stored and
\* the new one belongs to the requesting user
C15_Witness ==
    /\ last.op = "apply_attachment"
    /\ last.outcome = "redirect_applications"
    /\ Len(applications) = 2
    /\ applications[2].student = last.user
    /\ applications[2].status = "submitted"
    /\ applications[2].submitted_at # NULL

\* C16: an organization row comes into existence only through register_organization
\* and then has verification_status 'pending', whatever status the request carried;
\* a status changes to 'verified' only in a verify_organization request of a
\* coordinator or superuser on a row stored before.
C16_RegisteredIsPending ==
    [][\A o \in Orgs :
          /\ (~organizations[o].exists /\ organizations'[o].exists)
                => /\ last'.op = "register_organization"
                   /\ organizations'[o].verification_status = "pending"
          /\ (organizations[o].verification_status # "verified"
              /\ organizations'[o].verification_status = "verified")
                => /\ last'.op = "verify_organization"
                   /\ MayVerify(last'.user)
                   /\ organizations[o].exists]_vars

\* C16 witness: register_organization has just stored an organization, which is pending
C16_Witness ==
    /\ last.op = "register_organization"
    /\ last.outcome = "redirect_organizations"
    /\ \E o \in Orgs : organizations[o].exists
                       /\ organizations[o].verification_status = "pending"
                       /\ organizations[o].verified_by = NULL

\* C17: a save that changes a stored organization to 'verified' sets
\* verification_expiry to the current date plus 365 days and verified_at to the
\* current time; no step changes the verification_expiry of an organization whose
\* stored status is 'verified'.
C17_ExpirySetOnVerification ==
    [][\A o \in Orgs :
          /\ (/\ organizations[o].exists
              /\ organizations[o].verification_status # "verified"
              /\ organizations'[o].verification_status = "verified")
                => /\ organizations'[o].verification_expiry = now + 365
                   /\ organizations'[o].verified_at = now
          /\ organizations[o].verification_status = "verified"
                => organizations'[o].verification_expiry
                      = organizations[o].verification_expiry]_vars

\* C17 witness: an organization verified on day 1 was saved as verified again on day
\* 2 and keeps the expiry of day 1
C17_Witness ==
    /\ last.op = "verify_organization"
    /\ last.outcome = "redirect_organization_detail"
    /\ now = 2
    /\ \E o \in Orgs :
          /\ organizations[o].verification_status = "verified"
          /\ organizations[o].verified_at = 2
          /\ organizations[o].verification_expiry = 1 + ExpiryDays

\* C18: every organization whose verification_status is 'verified' has verified_by,
\* verified_at and verification_expiry set.
C18_VerifiedIsStamped ==
    \A o \in Orgs :
        organizations[o].verification_status = "verified"
            => /\ organizations[o].exists
               /\ organizations[o].verified_by # NULL
               /\ organizations[o].verified_at # NULL
               /\ organizations[o].verification_expiry # NULL

\* C18 witness: a verified organization, stamped by a coordinator without superuser
\* rights
C18_Witness ==
    \E o \in Orgs :
        /\ organizations[o].verification_status = "verified"
        /\ organizations[o].verified_by \in Users
        /\ ~is_superuser[organizations[o].verified_by]
        /\ organizations[o].verification_expiry # NULL

\* C19 (as stated): an organization that has never been verified has verified_by and
\* verified_at null. verification_expiry is set by the first change to 'verified' and
\* never cleared, so the organizations never verified are those with a null expiry.
C19_UnverifiedIsUnstamped ==
    \A o \in Orgs :
        (organizations[o].exists /\ organizations[o].verification_expiry = NULL)
            => /\ organizations[o].verified_by = NULL
               /\ organizations[o].verified_at = NULL

\* C19 (observed): every accepted verify_organization POST stamps the organization
\* with the requesting user and the current time, whatever status it assigns.
C19_EveryReviewStamps ==
    [][(last'.op = "verify_organization" /\ last'.outcome = "redirect_organization_detail")
          => \E o \in Orgs :
                /\ organizations'[o].verified_by = last'.user
                /\ organizations'[o].verified_at = now
                /\ \A p \in Orgs \ {o} : organizations'[p] = organizations[p]]_vars

\* C19 witness: a rejected organization that was never verified carries a verifier
C19_Witness ==
    \E o \in Orgs :
        /\ organizations[o].verification_status = "rejected"
        /\ organizations[o].verification_expiry = NULL
        /\ organizations[o].verified_by # NULL
        /\ organizations[o].verified_at # NULL

\* C20 (as stated): when at least one of the four components is recorded, a recorded
\* 0 included, calculate_total_marks sets total_marks to the sum of the recorded
\* components and returns it; it returns None and leaves total_marks unchanged only
\* when all four are null.
C20_TotalFromAllRecorded ==
    [][last'.op = "calculate_total_marks"
          => IF Recorded(marks) # {}
             THEN /\ marks'.total_marks = RecordedSum(marks)
                  /\ marks'.returned = RecordedSum(marks)
             ELSE /\ marks'.total_marks = marks.total_marks
                  /\ marks'.returned = NULL]_vars

\* C20 (observed): when every recorded component is 0, calculate_total_marks returns
\* None and leaves total_marks as it was, as it does when nothing is recorded.
C20_ZeroMarksCountAsMissing ==
    [][(/\ last'.op = "calculate_total_marks"
        /\ \A i \in Recorded(marks) : Components(marks)[i] = 0)
          => /\ marks'.returned = NULL
             /\ marks'.total_marks = marks.total_marks]_vars

\* C20 witness: a mark of 0 is recorded, the calculation has run, and there is no total
C20_Witness ==
    /\ last.op = "calculate_total_marks"
    /\ Recorded(marks) # {}
    /\ \A i \in Recorded(marks) : Components(marks)[i] = 0
    /\ marks.returned = NULL
    /\ marks.total_marks = NULL

\* the grade of a total by the thresholds 70 / 60 / 50 / 40
GradeOf(total) ==
    IF total >= 70 THEN "A"
    ELSE IF total >= 60 THEN "B"
    ELSE IF total >= 50 THEN "C"
    ELSE IF total >= 40 THEN "D"
    ELSE "F"

\* C21 (as stated): calculate_grade assigns the grade of every non-null total_marks,
\* 'A' from 70, 'B' for 60..69, 'C' for 50..59, 'D' for 40..49 and 'F' below 40, a
\* total of 0 included; with a null total_marks it leaves the grade unchanged.
C21_GradeFromEveryTotal ==
    [][last'.op = "calculate_grade"
          => /\ marks'.total_marks = marks.total_marks
             /\ marks'.grade = IF marks.total_marks # NULL
                               THEN GradeOf(marks.total_marks)
                               ELSE marks.grade]_vars

\* C21 (observed): calculate_grade leaves the grade unchanged when total_marks is 0,
\* as it does when total_marks is null, and assigns the grade by the thresholds for
\* every other total.
C21_ZeroTotalKeepsGrade ==
    [][last'.op = "calculate_grade"
          => /\ marks'.total_marks = marks.total_marks
             /\ marks'.grade = IF marks.total_marks # NULL /\ marks.total_marks # 0
                               THEN GradeOf(marks.total_marks)
                               ELSE marks.grade]_vars

\* C21 witness: calculate_grade has run on a total of 0 and no grade is assigned
C21_Witness ==
    /\ last.op = "calculate_grade"
    /\ marks.total_marks = 0
    /\ marks.grade = ""

\* C22 (as stated): every Message created through new_message has the requesting
\* user as sender and an active user as recipient; a coordinator or superuser may
\* address any active user, a university supervisor only a student, and a student
\* only a university supervisor or a coordinator.
C22_RecipientsByRole ==
    [][Len(messages') > Len(messages)
          => LET m == messages'[Len(messages')]
             IN /\ last'.op = "new_message"
                /\ m.sender = last'.user
                /\ m.recipient \in Users
                /\ is_active[m.recipient]
                /\ (~is_superuser[m.sender] /\ profile[m.sender] = "university_supervisor")
                      => profile[m.recipient] = "student"
                /\ (~is_superuser[m.sender] /\ profile[m.sender] = "student")
                      => profile[m.recipient] \in {"university_supervisor",
                                                   "coordinator"}]_vars

\* C22 (observed): every Message created has the requesting user as sender and a
\* recipient of the queryset of that user's form, which for an industry supervisor
\* or an admin who is not a superuser is every user, inactive ones included; the
\* request that stores the row ends in NoReverseMatch, not in a redirect.
C22_RecipientInQueryset ==
    [][Len(messages') > Len(messages)
          => LET m == messages'[Len(messages')]
             IN /\ last'.op = "new_message"
                /\ last'.outcome = "NoReverseMatch"
                /\ Len(messages') = Len(messages) + 1
                /\ \A i \in 1..Len(messages) : messages'[i] = messages[i]
                /\ m.sender = last'.user
                /\ (is_superuser[m.sender] \/ profile[m.sender] = "coordinator")
                      => is_active[m.recipient]
                /\ (~is_superuser[m.sender] /\ profile[m.sender] = "university_supervisor")
                      => is_active[m.recipient] /\ profile[m.recipient] = "student"
                /\ (~is_superuser[m.sender] /\ profile[m.sender] = "student")
                      => /\ is_active[m.recipient]
                         /\ profile[m.recipient] \in {"university_supervisor", "coordinator"}
                /\ (~is_superuser[m.sender]
                    /\ profile[m.sender] \in {"industry_supervisor", "admin"})
                      => m.recipient \in Users]_vars

\* C22 witness: an industry supervisor's message to an inactive user is stored
C22_Witness ==
    /\ last.op = "new_message"
    /\ last.outcome = "NoReverseMatch"
    /\ \E i \in 1..Len(messages) :
          /\ messages[i].sender = last.user
          /\ profile[messages[i].sender] = "industry_supervisor"
          /\ ~is_superuser[messages[i].sender]
          /\ ~is_active[messages[i].recipient]

\* C23: a logbook request of a user for a stored application shows the logbook if
\* and only if the user is a superuser, or has user_type 'university_supervisor', or
\* is the student who owns the application; a student asking for another student's
\* application is not shown it.
C23_LogbookShownIffPermitted ==
    (last.op = "logbook" /\ last.user \in Users /\ last.target \in AppIds)
        => /\ last.outcome = "render_logbook"
                <=> \/ is_superuser[last.user]
                    \/ profile[last.user] = "university_supervisor"
                    \/ applications[last.target].student = last.user
           /\ (/\ profile[last.user] = "student"
               /\ ~is_superuser[last.user]
               /\ applications[last.target].student # last.user)
                 => last.outcome = "redirect_dashboard"

\* C23 witness: a student asked for the logbook of another student's application and
\* was sent to the dashboard
C23_Witness ==
    /\ last.op = "logbook"
    /\ last.outcome = "redirect_dashboard"
    /\ last.user \in Users
    /\ last.target \in AppIds
    /\ profile[last.user] = "student"
    /\ applications[last.target].student # last.user
    /\ profile[applications[last.target].student] = "student"
====
